---------------------------- MODULE Spec2Model ----------------------------
(***************************************************************************)
(* A model of the two scripts of spatial-mechanics:                        *)
(*   codes/inv_det.py                       inverse and determinant of    *)
(*                                          three small matrices           *)
(*   codes/orbital_welding_visualization.py the pipe, the world frame and *)
(*                                          the tool frames at waypoints   *)
(*                                                                         *)
(* Numbers are exact rationals <<n, d>> (d > 0, lowest terms): the model   *)
(* is the real-arithmetic reading of the scripts.  The rounding of IEEE    *)
(* doubles (about 1e-16 relative) is not part of it.                       *)
(*                                                                         *)
(* An angle is <<k, p, q>>: k quarter turns plus the angle whose half-angle*)
(* tangent is p/q (0 <= p < q).  Exactly these angles have a rational      *)
(* sine and cosine.                                                        *)
(***************************************************************************)
EXTENDS Integers, Sequences, FiniteSets, TLC

VARIABLES
    \* ---- orbital_welding_visualization.py, main() ----
    pc,          \* the statement main() is about to run
    radius,      \* main: radius
    length,      \* main: length
    num_points,  \* main: num_points handed to create_cylinder
    circle_n,    \* main: number of samples of circle_theta
    world_axes_offset,
    tool_frames_offset,
    axis_length,
    scale,       \* main: scale handed to plot_tool_frame
    waypoints,   \* main: the list the for loop walks
    wi,          \* main: number of waypoints the for loop has processed
    ax,          \* the Axes3D: what has been handed to the renderer
    svg_file,    \* the file plt.savefig has written, or None
    frame,       \* the locals of the latest plot_tool_frame call
    \* ---- the tool-frame formulas on any angle ----
    fpc, ftheta, fprev, fcalls,
    \* ---- inv_det.py ----
    mpc, H2, H2_inv, det_H2, R, R_inv, det_R, R_new, det_R_new, R_new_inv, stdout

vizvars == <<pc, radius, length, num_points, circle_n, world_axes_offset,
             tool_frames_offset, axis_length, scale, waypoints, wi, ax, svg_file>>
framevars == <<fpc, ftheta, fprev, fcalls>>
matvars == <<mpc, H2, H2_inv, det_H2, R, R_inv, det_R, R_new, det_R_new,
             R_new_inv, stdout>>
vars == <<vizvars, frame, framevars, matvars>>

None == "None"

-----------------------------------------------------------------------------
(* Exact rational arithmetic.                                               *)

RECURSIVE GCD(_, _)
GCD(a, b) == IF b = 0 THEN a ELSE GCD(b, a % b)

Abs(a) == IF a < 0 THEN -a ELSE a

RNorm(n, d) ==
    LET s == IF d < 0 THEN -1 ELSE 1
        g == GCD(Abs(n), Abs(d))
    IN  <<(s * n) \div g, (s * d) \div g>>

Rat(n) == <<n, 1>>
RAdd(a, b) == RNorm(a[1] * b[2] + b[1] * a[2], a[2] * b[2])
RNeg(a) == <<-a[1], a[2]>>
RSub(a, b) == RAdd(a, RNeg(b))
RMul(a, b) == RNorm(a[1] * b[1], a[2] * b[2])
RDiv(a, b) == RNorm(a[1] * b[2], a[2] * b[1])
RLess(a, b) == a[1] * b[2] < b[1] * a[2]
RAbs(a) == <<Abs(a[1]), a[2]>>

(* numpy arrays of three numbers *)
VAdd(u, v) == <<RAdd(u[1], v[1]), RAdd(u[2], v[2]), RAdd(u[3], v[3])>>
VSub(u, v) == <<RSub(u[1], v[1]), RSub(u[2], v[2]), RSub(u[3], v[3])>>
VScale(u, k) == <<RMul(u[1], k), RMul(u[2], k), RMul(u[3], k)>>
Dot(u, v) == RAdd(RAdd(RMul(u[1], v[1]), RMul(u[2], v[2])), RMul(u[3], v[3]))

-----------------------------------------------------------------------------
(* Angles and the trigonometric functions.                                  *)

MaxQ == 3

\* The angles of [0, 360) with a half-angle tangent of denominator <= MaxQ.
Angles ==
    {t \in (0..3) \X (0..(MaxQ - 1)) \X (1..MaxQ) :
        t[2] < t[3] /\ GCD(t[2], t[3]) = 1}

\* cos and sin of the part of the angle inside its quadrant:
\* with t = tan(a/2), cos a = (1 - t^2)/(1 + t^2), sin a = 2t/(1 + t^2).
BaseCos(theta) ==
    RNorm(theta[3] * theta[3] - theta[2] * theta[2],
          theta[3] * theta[3] + theta[2] * theta[2])
BaseSin(theta) ==
    RNorm(2 * theta[2] * theta[3], theta[3] * theta[3] + theta[2] * theta[2])

np_cos(theta) ==
    CASE theta[1] % 4 = 0 -> BaseCos(theta)
      [] theta[1] % 4 = 1 -> RNeg(BaseSin(theta))
      [] theta[1] % 4 = 2 -> RNeg(BaseCos(theta))
      [] theta[1] % 4 = 3 -> BaseSin(theta)

np_sin(theta) ==
    CASE theta[1] % 4 = 0 -> BaseSin(theta)
      [] theta[1] % 4 = 1 -> BaseCos(theta)
      [] theta[1] % 4 = 2 -> RNeg(BaseSin(theta))
      [] theta[1] % 4 = 3 -> RNeg(BaseCos(theta))

\* np.deg2rad on a whole number of quarter turns (90 degrees each).
deg2rad(theta_deg) == <<theta_deg \div 90, 0, 1>>

-----------------------------------------------------------------------------
(* orbital_welding_visualization.py                                         *)

\* np.linspace(start, stop, n) on rationals, n >= 2.
linspace(start, stop, n) ==
    [j \in 1..n |->
        RAdd(start, RDiv(RMul(Rat(j - 1), RSub(stop, start)), Rat(n - 1)))]

\* np.linspace(0, 2*np.pi, n): n angles from 0 to a full turn (4 quarter
\* turns).  The samples are whole quarter turns when n - 1 divides 4.
linspace_2pi(n) == [j \in 1..n |-> <<(4 * (j - 1)) \div (n - 1), 0, 1>>]

\* create_cylinder handing the user grids over without exchanging Y and Z
create_cylinder_unswapped(r, height, n) ==
    LET theta == linspace_2pi(n)
        x_pipe == linspace(RDiv(Rat(-height), Rat(2)), RDiv(Rat(height), Rat(2)), n)
        X_user == [i \in 1..n |-> [j \in 1..n |-> x_pipe[i]]]
        Y_user == [i \in 1..n |-> [j \in 1..n |-> RMul(Rat(r), np_cos(theta[j]))]]
        Z_user == [i \in 1..n |-> [j \in 1..n |-> RMul(Rat(r), np_sin(theta[j]))]]
        X_mpl == [i \in 1..n |-> [j \in 1..n |-> RNeg(X_user[i][j])]]
    IN  <<X_mpl, Y_user, Z_user>>

\* The X_mpl, Y_mpl, Z_mpl of create_cylinder: grids indexed [i][j], i along
\* x_pipe and j along theta (np.meshgrid(theta, x_pipe)).
create_cylinder(r, height, n) ==
    LET theta == linspace_2pi(n)
        x_pipe == linspace(RDiv(Rat(-height), Rat(2)), RDiv(Rat(height), Rat(2)), n)
        Theta == [i \in 1..n |-> [j \in 1..n |-> theta[j]]]
        X_user == [i \in 1..n |-> [j \in 1..n |-> x_pipe[i]]]
        Y_user == [i \in 1..n |-> [j \in 1..n |-> RMul(Rat(r), np_cos(Theta[i][j]))]]
        Z_user == [i \in 1..n |-> [j \in 1..n |-> RMul(Rat(r), np_sin(Theta[i][j]))]]
        X_mpl == [i \in 1..n |-> [j \in 1..n |-> RNeg(X_user[i][j])]]
        Y_mpl == Z_user
        Z_mpl == Y_user
    IN  <<X_mpl, Y_mpl, Z_mpl>>

\* draw_arrow: one Arrow3D artist and the text label at the arrow's end.
draw_arrow(a, origin, direction, color, label, linewidth) ==
    LET text_pos == VAdd(origin, VScale(direction, <<23, 20>>))
    IN  [a EXCEPT
            !.arrows = Append(@, [origin |-> origin, direction |-> direction,
                                  color |-> color, label |-> label,
                                  lw |-> linewidth]),
            !.texts = Append(@, [pos |-> text_pos, label |-> label,
                                 color |-> color])]

\* the position with sine and cosine exchanged
pos_user_swapped(theta, r, x_offset) ==
    <<Rat(x_offset), RMul(Rat(r), np_sin(theta)), RMul(Rat(r), np_cos(theta))>>

\* plot_tool_frame's locals.
pos_user(theta, r, x_offset) ==
    <<Rat(x_offset), RMul(Rat(r), np_cos(theta)), RMul(Rat(r), np_sin(theta))>>

z_tool_user(theta) == <<Rat(0), np_cos(theta), np_sin(theta)>>

\* the tangent without its minus sign
x_tool_user_unsigned(theta) == <<Rat(0), np_sin(theta), np_cos(theta)>>

\* the tangent of the opposite sense of rotation
x_tool_user_reversed(theta) == <<Rat(0), np_sin(theta), RNeg(np_cos(theta))>>

x_tool_user(theta) == <<Rat(0), RNeg(np_sin(theta)), np_cos(theta)>>

y_tool_user == <<Rat(1), Rat(0), Rat(0)>>

\* a remap with the minus sign on the wrong component
user_to_mpl_rotated(vec) == <<vec[1], RNeg(vec[3]), vec[2]>>

\* user_to_mpl as defined inside plot_tool_frame.
user_to_mpl(vec) == <<RNeg(vec[1]), vec[3], vec[2]>>

\* The values plot_tool_frame computes from theta (in radians) on.
tool_frame(theta, r, sc, x_offset) ==
    [theta       |-> theta,
     pos_user    |-> pos_user(theta, r, x_offset),
     z_tool_user |-> z_tool_user(theta),
     x_tool_user |-> x_tool_user(theta),
     y_tool_user |-> y_tool_user,
     pos_mpl     |-> user_to_mpl(pos_user(theta, r, x_offset)),
     x_tool_mpl  |-> VScale(user_to_mpl(x_tool_user(theta)), Rat(sc)),
     y_tool_mpl  |-> VScale(user_to_mpl(y_tool_user), Rat(sc)),
     z_tool_mpl  |-> VScale(user_to_mpl(z_tool_user(theta)), Rat(sc))]

\* plot_tool_frame placing its frame by the frames the axes already hold
plot_tool_frame_shared(a, theta_deg, r, sc, x_offset) ==
    LET f  == tool_frame(deg2rad(theta_deg), r, sc,
                         x_offset + 10 * Len(a.scatters))
        a1 == draw_arrow(a, f.pos_mpl, f.x_tool_mpl, "red",
                         <<"X-tool", theta_deg>>, <<5, 2>>)
        a2 == draw_arrow(a1, f.pos_mpl, f.y_tool_mpl, "green",
                         <<"Y-tool", theta_deg>>, <<5, 2>>)
        a3 == draw_arrow(a2, f.pos_mpl, f.z_tool_mpl, "blue",
                         <<"Z-tool", theta_deg>>, <<5, 2>>)
        label_pos == VSub(f.pos_mpl, VScale(f.z_tool_mpl, <<3, 10>>))
    IN  [a3 EXCEPT
            !.scatters = Append(@, [pos |-> f.pos_mpl, color |-> "red"]),
            !.texts = Append(@, [pos |-> label_pos,
                                 label |-> <<"theta=", theta_deg>>,
                                 color |-> "black"])]

\* plot_tool_frame: what the call adds to the axes.
plot_tool_frame(a, theta_deg, r, sc, x_offset) ==
    LET f  == tool_frame(deg2rad(theta_deg), r, sc, x_offset)
        a1 == draw_arrow(a, f.pos_mpl, f.x_tool_mpl, "red",
                         <<"X-tool", theta_deg>>, <<5, 2>>)
        a2 == draw_arrow(a1, f.pos_mpl, f.y_tool_mpl, "green",
                         <<"Y-tool", theta_deg>>, <<5, 2>>)
        a3 == draw_arrow(a2, f.pos_mpl, f.z_tool_mpl, "blue",
                         <<"Z-tool", theta_deg>>, <<5, 2>>)
        label_pos == VSub(f.pos_mpl, VScale(f.z_tool_mpl, <<3, 10>>))
    IN  [a3 EXCEPT
            !.scatters = Append(@, [pos |-> f.pos_mpl, color |-> "red"]),
            !.texts = Append(@, [pos |-> label_pos,
                                 label |-> <<"theta=", theta_deg>>,
                                 color |-> "black"])]

\* user_to_mpl as defined inside main.
main_user_to_mpl(vec) == <<RNeg(vec[1]), vec[3], vec[2]>>

-----------------------------------------------------------------------------
(* main() of orbital_welding_visualization.py as a state machine.           *)

\* The script's own values; each input set below starts with them.
CodeRadius == 100
CodeLength == 250
CodeWorldAxesOffset == 80
CodeToolFramesOffset == -80
CodeAxisLength == 150
CodeScale == 60
DefaultScale == 40

Radii == {CodeRadius, 50}
Scales == {CodeScale, DefaultScale}
ToolOffsets == {CodeToolFramesOffset, 0}
\* Sample counts whose angles (np.linspace(0, 2*np.pi, n)) are whole quarter
\* turns; the script passes 30 to create_cylinder and 100 for the circle.
SampleCounts == {2, 3, 5}

CodeWaypoints == <<0, 90, 180, 270>>
\* The script's list in every order.
WaypointOrders ==
    {w \in [1..4 -> {0, 90, 180, 270}] : \A i, j \in 1..4 : w[i] = w[j] => i = j}

EmptyAxes ==
    [surfaces |-> <<>>, arrows |-> <<>>, texts |-> <<>>, scatters |-> <<>>,
     lines |-> <<>>, view |-> None]

VizInit ==
    /\ pc = "create_cylinder"
    /\ radius \in Radii
    /\ length = CodeLength
    /\ num_points \in SampleCounts
    /\ circle_n \in SampleCounts
    /\ world_axes_offset = CodeWorldAxesOffset
    /\ tool_frames_offset \in ToolOffsets
    /\ axis_length = CodeAxisLength
    /\ scale \in Scales
    /\ waypoints \in WaypointOrders
    /\ wi = 0
    /\ ax = EmptyAxes
    /\ svg_file = None
    /\ frame = None

\* lines 142-143
CreateCylinder ==
    /\ pc = "create_cylinder"
    /\ LET XYZ == create_cylinder(radius, length, num_points)
       IN  ax' = [ax EXCEPT !.surfaces =
                    Append(@, [X |-> XYZ[1], Y |-> XYZ[2], Z |-> XYZ[3]])]
    /\ pc' = "world_axes"
    /\ UNCHANGED <<radius, length, num_points, circle_n, world_axes_offset,
                   tool_frames_offset, axis_length, scale, waypoints, wi,
                   svg_file, frame, framevars, matvars>>

\* lines 154-167
WorldAxes ==
    /\ pc = "world_axes"
    /\ LET origin_user == <<Rat(world_axes_offset), Rat(0), Rat(0)>>
           origin_mpl == main_user_to_mpl(origin_user)
           x_axis_user == <<Rat(axis_length), Rat(0), Rat(0)>>
           y_axis_user == <<Rat(0), Rat(axis_length), Rat(0)>>
           z_axis_user == <<Rat(0), Rat(0), Rat(axis_length)>>
           a1 == draw_arrow(ax, origin_mpl, main_user_to_mpl(x_axis_user),
                            "red", <<"X (Pipe Axis)">>, Rat(4))
           a2 == draw_arrow(a1, origin_mpl, main_user_to_mpl(y_axis_user),
                            "green", <<"Y (Upward)">>, Rat(4))
           a3 == draw_arrow(a2, origin_mpl, main_user_to_mpl(z_axis_user),
                            "blue", <<"Z (Outward)">>, Rat(4))
       IN  ax' = a3
    /\ pc' = "tool_frames"
    /\ UNCHANGED <<radius, length, num_points, circle_n, world_axes_offset,
                   tool_frames_offset, axis_length, scale, waypoints, wi,
                   svg_file, frame, framevars, matvars>>

\* lines 170-172: one pass of the for loop
PlotToolFrame ==
    /\ pc = "tool_frames"
    /\ wi < Len(waypoints)
    /\ LET theta == waypoints[wi + 1]
       IN  /\ ax' = plot_tool_frame(ax, theta, radius, scale, tool_frames_offset)
           /\ frame' = tool_frame(deg2rad(theta), radius, scale, tool_frames_offset)
    /\ wi' = wi + 1
    /\ pc' = IF wi + 1 = Len(waypoints) THEN "circle" ELSE "tool_frames"
    /\ UNCHANGED <<radius, length, num_points, circle_n, world_axes_offset,
                   tool_frames_offset, axis_length, scale, waypoints, svg_file,
                   framevars, matvars>>

\* lines 176-186
CirclePath ==
    /\ pc = "circle"
    /\ LET circle_theta == linspace_2pi(circle_n)
           circle_y_user == [j \in 1..circle_n |->
                                RMul(Rat(radius), np_cos(circle_theta[j]))]
           circle_z_user == [j \in 1..circle_n |->
                                RMul(Rat(radius), np_sin(circle_theta[j]))]
           circle_x_user == [j \in 1..circle_n |-> Rat(tool_frames_offset)]
           circle_x_mpl == [j \in 1..circle_n |-> RNeg(circle_x_user[j])]
           circle_y_mpl == circle_z_user
           circle_z_mpl == circle_y_user
       IN  ax' = [ax EXCEPT !.lines =
                    Append(@, [xs |-> circle_x_mpl, ys |-> circle_y_mpl,
                               zs |-> circle_z_mpl])]
    /\ pc' = "view"
    /\ UNCHANGED <<radius, length, num_points, circle_n, world_axes_offset,
                   tool_frames_offset, axis_length, scale, waypoints, wi,
                   svg_file, frame, framevars, matvars>>

\* lines 192-209
SetView ==
    /\ pc = "view"
    /\ ax' = [ax EXCEPT !.view =
                [xlabel |-> "X (mm)", ylabel |-> "Z (mm)", zlabel |-> "Y (mm)",
                 lim |-> <<-200, 200>>, elev |-> 20, azim |-> 135]]
    /\ pc' = "savefig"
    /\ UNCHANGED <<radius, length, num_points, circle_n, world_axes_offset,
                   tool_frames_offset, axis_length, scale, waypoints, wi,
                   svg_file, frame, framevars, matvars>>

\* lines 212-222
SaveFig ==
    /\ pc = "savefig"
    /\ svg_file' = "orbital_welding_tool_frames.svg"
    /\ pc' = "done"
    /\ UNCHANGED <<radius, length, num_points, circle_n, world_axes_offset,
                   tool_frames_offset, axis_length, scale, waypoints, wi, ax,
                   frame, framevars, matvars>>

Next ==
    \/ CreateCylinder
    \/ WorldAxes
    \/ PlotToolFrame
    \/ CirclePath
    \/ SetView
    \/ SaveFig

\* main() with its parameters fixed to the script's values and not running.
VizIdle ==
    /\ pc = "create_cylinder"
    /\ length = CodeLength
    /\ num_points = 5
    /\ circle_n = 5
    /\ world_axes_offset = CodeWorldAxesOffset
    /\ axis_length = CodeAxisLength
    /\ waypoints = CodeWaypoints
    /\ wi = 0
    /\ ax = EmptyAxes
    /\ svg_file = None

-----------------------------------------------------------------------------
(* The tool-frame formulas of plot_tool_frame (lines 91-110) on every angle *)
(* of Angles: the frame at theta, then at theta + 90 degrees, and so on.    *)

MaxQuarterTurns == 4

FrameInit ==
    /\ fpc = "call"
    /\ ftheta \in Angles
    /\ fprev = None
    /\ fcalls = 0
    /\ frame = None

FrameIdle ==
    /\ fpc = "idle"
    /\ ftheta = <<0, 0, 1>>
    /\ fprev = None
    /\ fcalls = 0

\* lines 91-110 at ftheta
FrameCall ==
    /\ fpc = "call"
    /\ frame' = tool_frame(ftheta, radius, scale, tool_frames_offset)
    /\ fprev' = frame
    /\ fcalls' = fcalls + 1
    /\ fpc' = "advance"
    /\ UNCHANGED <<vizvars, ftheta, matvars>>

\* the next waypoint, a quarter turn further
FrameAdvance ==
    /\ fpc = "advance"
    /\ ftheta[1] < MaxQuarterTurns
    /\ ftheta' = <<ftheta[1] + 1, ftheta[2], ftheta[3]>>
    /\ fpc' = "call"
    /\ UNCHANGED <<vizvars, frame, fprev, fcalls, matvars>>

FrameNext == FrameCall \/ FrameAdvance

-----------------------------------------------------------------------------
(* inv_det.py: matrices are tuples of rows of rationals.                    *)

RatMat(M) == [i \in DOMAIN M |-> [j \in DOMAIN M[i] |-> Rat(M[i][j])]]

Identity(n) == [i \in 1..n |-> [j \in 1..n |-> IF i = j THEN Rat(1) ELSE Rat(0)]]

RECURSIVE RSum(_, _)
RSum(f, n) == IF n = 0 THEN Rat(0) ELSE RAdd(RSum(f, n - 1), f[n])

\* the matrix product A @ B
MatMul(A, B) ==
    [i \in DOMAIN A |-> [j \in DOMAIN B[1] |->
        RSum([k \in DOMAIN B |-> RMul(A[i][k], B[k][j])], Len(B))]]

\* M[1:rows+1, 1:cols+1]: the slice taken one row and one column too far
Slice_shifted(M, rows, cols) ==
    [i \in 1..rows |-> [j \in 1..cols |-> M[i + 1][j + 1]]]

\* M[:rows, :cols]
Slice(M, rows, cols) == [i \in 1..rows |-> [j \in 1..cols |-> M[i][j]]]

\* [M | I]
Augment(M) ==
    LET n == Len(M)
    IN  [i \in 1..n |-> [j \in 1..(2 * n) |->
            IF j <= n THEN M[i][j]
            ELSE IF j - n = i THEN Rat(1) ELSE Rat(0)]]

\* f itself, evaluated once: TLC otherwise evaluates a function expression
\* again at each application.
Evaluated(f) == f @@ <<>>

RowSub(row, mult, prow) ==
    Evaluated([j \in DOMAIN row |-> RSub(row[j], RMul(mult, prow[j]))])

\* The row LAPACK's partial pivoting picks for column k: the first row from
\* k on whose entry in column k is largest in absolute value.
PivotRow(A, n, k) ==
    CHOOSE r \in k..n :
        \A r2 \in k..n :
            /\ ~RLess(RAbs(A[r][k]), RAbs(A[r2][k]))
            /\ (RAbs(A[r2][k]) = RAbs(A[r][k]) => r <= r2)

\* LU factorisation with partial pivoting (dgetrf), carried out on all the
\* columns of A: the upper triangle of the result is U, sign is the sign of
\* the row permutation.
RECURSIVE Eliminate(_, _, _, _)
Eliminate(A, n, k, sgn) ==
    IF k > n THEN [A |-> A, sign |-> sgn, singular |-> FALSE]
    ELSE
      LET p == PivotRow(A, n, k)
      IN  IF A[p][k] = Rat(0) THEN [A |-> A, sign |-> sgn, singular |-> TRUE]
          ELSE
            LET S == [A EXCEPT ![k] = A[p], ![p] = A[k]]
                E == Evaluated([i \in 1..n |->
                        IF i <= k THEN S[i]
                        ELSE RowSub(S[i], RDiv(S[i][k], S[k][k]), S[k])])
            IN  Eliminate(E, n, k + 1, IF p = k THEN sgn ELSE -sgn)

\* back substitution that does not divide a row by its pivot
RECURSIVE BackSubst_unscaled(_, _, _)
BackSubst_unscaled(A, n, k) ==
    IF k = 0 THEN A
    ELSE
      LET B == Evaluated([i \in 1..n |->
                  IF i < k THEN RowSub(A[i], A[i][k], A[k]) ELSE A[i]])
      IN  BackSubst_unscaled(B, n, k - 1)

\* Back substitution on the eliminated [U | B]: the result is [I | U^-1 B].
RECURSIVE BackSubst(_, _, _)
BackSubst(A, n, k) ==
    IF k = 0 THEN A
    ELSE
      LET rowk == Evaluated([j \in DOMAIN A[k] |-> RDiv(A[k][j], A[k][k])])
          B == Evaluated([i \in 1..n |->
                  IF i = k THEN rowk
                  ELSE IF i < k THEN RowSub(A[i], A[i][k], rowk)
                  ELSE A[i]])
      IN  BackSubst(B, n, k - 1)

RECURSIVE DiagProduct(_, _)
DiagProduct(A, n) == IF n = 0 THEN Rat(1) ELSE RMul(DiagProduct(A, n - 1), A[n][n])

\* the transpose in place of the inverse
linalg_inv_transpose(M) ==
    [raised |-> FALSE,
     value |-> [i \in 1..Len(M) |-> [j \in 1..Len(M) |-> M[j][i]]]]

\* np.linalg.inv: solve M X = I by LU.  raised: the call raises LinAlgError
\* (M is singular) and returns nothing.
linalg_inv(M) ==
    LET n == Len(M)
        f == Eliminate(Augment(M), n, 1, 1)
    IN  IF f.singular THEN [raised |-> TRUE, value |-> <<>>]
        ELSE LET sol == BackSubst(f.A, n, n)
             IN  [raised |-> FALSE,
                  value |-> [i \in 1..n |-> [j \in 1..n |-> sol[i][n + j]]]]

\* the determinant without the sign of the row permutation
linalg_det_unsigned(M) ==
    LET n == Len(M)
        f == Eliminate(M, n, 1, 1)
    IN  IF f.singular THEN Rat(0) ELSE DiagProduct(f.A, n)

\* np.linalg.det: the product of U's diagonal times the permutation's sign;
\* 0 for a singular matrix.
linalg_det(M) ==
    LET n == Len(M)
        f == Eliminate(M, n, 1, 1)
    IN  IF f.singular THEN Rat(0)
        ELSE RMul(Rat(f.sign), DiagProduct(f.A, n))

\* The script's literals.
CodeH2 ==
    RatMat(<< <<1,  0,  0, -5>>,
              <<0, -1,  0, 10>>,
              <<0,  0, -1,  8>>,
              <<0,  0,  0,  1>> >>)

CodeRnew ==
    RatMat(<< << 0, -1,  0>>,
              <<-1,  0,  0>>,
              << 0,  0,  1>> >>)

\* The inputs the matrix routines are run on: every signed permutation
\* matrix (the script's two rotation blocks are among them), one matrix
\* whose elimination has multipliers and a non-unit pivot, one singular one.
Perms3 == {w \in [1..3 -> 1..3] : \A i, j \in 1..3 : w[i] = w[j] => i = j}

SignedPerms ==
    {[i \in 1..3 |-> [j \in 1..3 |-> IF j = w[i] THEN sg[i] ELSE 0]] :
        w \in Perms3, sg \in [1..3 -> {-1, 1}]}

Sheared == << <<2, 1, 0>>, <<1, 1, 0>>, <<0, 0, 1>> >>

Singular3 == << <<1, 0, 0>>, <<0, -1, 0>>, <<0, 0, 0>> >>

RotInputs == {RatMat(M) : M \in SignedPerms \cup {Sheared, Singular3}}

Translations == {<<-5, 10, 8>>, <<0, 0, 0>>}

\* The homogeneous transform with rotation block Rot and translation t.
Homogeneous(Rot, t) ==
    [i \in 1..4 |-> [j \in 1..4 |->
        IF i <= 3 /\ j <= 3 THEN Rot[i][j]
        ELSE IF i <= 3 THEN Rat(t[i])
        ELSE IF j = 4 THEN Rat(1) ELSE Rat(0)]]

MatInit ==
    /\ mpc = "inv_H2"
    /\ H2 \in {Homogeneous(Rot, t) : Rot \in RotInputs, t \in Translations}
    /\ R_new \in RotInputs
    /\ H2_inv = None /\ det_H2 = None
    /\ R = None /\ R_inv = None /\ det_R = None
    /\ det_R_new = None /\ R_new_inv = None
    /\ stdout = <<>>

MatIdle ==
    /\ mpc = "idle"
    /\ H2 = CodeH2
    /\ R_new = CodeRnew
    /\ H2_inv = None /\ det_H2 = None
    /\ R = None /\ R_inv = None /\ det_R = None
    /\ det_R_new = None /\ R_new_inv = None
    /\ stdout = <<>>

\* line 13; an uncaught LinAlgError ends the script
InvH2 ==
    /\ mpc = "inv_H2"
    /\ LET inv == linalg_inv(H2)
       IN  IF inv.raised
           THEN mpc' = "LinAlgError" /\ UNCHANGED H2_inv
           ELSE mpc' = "det_H2" /\ H2_inv' = inv.value
    /\ UNCHANGED <<H2, det_H2, R, R_inv, det_R, R_new, det_R_new, R_new_inv, stdout,
                   vizvars, frame, framevars>>

\* line 14
DetH2 ==
    /\ mpc = "det_H2"
    /\ det_H2' = linalg_det(H2)
    /\ mpc' = "print_H2"
    /\ UNCHANGED <<H2, H2_inv, R, R_inv, det_R, R_new, det_R_new, R_new_inv, stdout,
                   vizvars, frame, framevars>>

\* lines 16-18
PrintH2 ==
    /\ mpc = "print_H2"
    /\ stdout' = stdout \o << <<"4x4 Matrix H2:", H2>>,
                              <<"Inverse of 4x4 H2:", H2_inv>>,
                              <<"Determinant of 4x4 H2:", det_H2>> >>
    /\ mpc' = "slice_R"
    /\ UNCHANGED <<H2, H2_inv, det_H2, R, R_inv, det_R, R_new, det_R_new, R_new_inv,
                   vizvars, frame, framevars>>

\* line 23
SliceR ==
    /\ mpc = "slice_R"
    /\ R' = Slice(H2, 3, 3)
    /\ mpc' = "inv_R"
    /\ UNCHANGED <<H2, H2_inv, det_H2, R_inv, det_R, R_new, det_R_new, R_new_inv, stdout,
                   vizvars, frame, framevars>>

\* line 25
InvR ==
    /\ mpc = "inv_R"
    /\ LET inv == linalg_inv(R)
       IN  IF inv.raised
           THEN mpc' = "LinAlgError" /\ UNCHANGED R_inv
           ELSE mpc' = "det_R" /\ R_inv' = inv.value
    /\ UNCHANGED <<H2, H2_inv, det_H2, R, det_R, R_new, det_R_new, R_new_inv, stdout,
                   vizvars, frame, framevars>>

\* line 26
DetR ==
    /\ mpc = "det_R"
    /\ det_R' = linalg_det(R)
    /\ mpc' = "print_R"
    /\ UNCHANGED <<H2, H2_inv, det_H2, R, R_inv, R_new, det_R_new, R_new_inv, stdout,
                   vizvars, frame, framevars>>

\* lines 28-30
PrintR ==
    /\ mpc = "print_R"
    /\ stdout' = stdout \o << <<"3x3 Rotation Matrix from H2:", R>>,
                              <<"Inverse of 3x3 R:", R_inv>>,
                              <<"Determinant of 3x3 R:", det_R>> >>
    /\ mpc' = "det_R_new"
    /\ UNCHANGED <<H2, H2_inv, det_H2, R, R_inv, det_R, R_new, det_R_new, R_new_inv,
                   vizvars, frame, framevars>>

\* line 41
DetRnew ==
    /\ mpc = "det_R_new"
    /\ det_R_new' = linalg_det(R_new)
    /\ mpc' = "inv_R_new"
    /\ UNCHANGED <<H2, H2_inv, det_H2, R, R_inv, det_R, R_new, R_new_inv, stdout,
                   vizvars, frame, framevars>>

\* line 42
InvRnew ==
    /\ mpc = "inv_R_new"
    /\ LET inv == linalg_inv(R_new)
       IN  IF inv.raised
           THEN mpc' = "LinAlgError" /\ UNCHANGED R_new_inv
           ELSE mpc' = "print_R_new" /\ R_new_inv' = inv.value
    /\ UNCHANGED <<H2, H2_inv, det_H2, R, R_inv, det_R, R_new, det_R_new, stdout,
                   vizvars, frame, framevars>>

\* lines 44-46
PrintRnew ==
    /\ mpc = "print_R_new"
    /\ stdout' = stdout \o << <<"Additional 3x3 Matrix R_new:", R_new>>,
                              <<"Inverse of R_new:", R_new_inv>>,
                              <<"Determinant of R_new:", det_R_new>> >>
    /\ mpc' = "done"
    /\ UNCHANGED <<H2, H2_inv, det_H2, R, R_inv, det_R, R_new, det_R_new, R_new_inv,
                   vizvars, frame, framevars>>

MatNext ==
    \/ InvH2
    \/ DetH2
    \/ PrintH2
    \/ SliceR
    \/ InvR
    \/ DetR
    \/ PrintR
    \/ DetRnew
    \/ InvRnew
    \/ PrintRnew

-----------------------------------------------------------------------------
(* The specifications.                                                      *)

\* main() of the visualization script
Init == VizInit /\ FrameIdle /\ MatIdle
Spec == Init /\ [][Next]_vars

\* the tool-frame formulas on every angle of Angles
InitFrame ==
    /\ VizIdle
    /\ radius \in Radii
    /\ scale \in Scales
    /\ tool_frames_offset \in ToolOffsets
    /\ FrameInit
    /\ MatIdle
SpecFrame == InitFrame /\ [][FrameNext]_vars

\* inv_det.py
InitMat ==
    /\ VizIdle
    /\ radius = CodeRadius
    /\ scale = CodeScale
    /\ tool_frames_offset = CodeToolFramesOffset
    /\ frame = None
    /\ FrameIdle
    /\ MatInit
SpecMat == InitMat /\ [][MatNext]_vars

-----------------------------------------------------------------------------
(* The claims.                                                              *)

Range(f) == {f[i] : i \in DOMAIN f}

\* plot_tool_frame has been called (main), tool_frame has been applied
\* (the frames on every angle)
FrameSet == wi >= 1 \/ fcalls >= 1

\* Every point and vector the renderer has been handed as an arrow, a text
\* or a marker, and the latest tool frame's.
DrawnVectors ==
    {a.origin : a \in Range(ax.arrows)} \cup
    {a.direction : a \in Range(ax.arrows)} \cup
    {t.pos : t \in Range(ax.texts)} \cup
    {m.pos : m \in Range(ax.scatters)} \cup
    (IF FrameSet
     THEN {frame.pos_user, frame.x_tool_user, frame.y_tool_user,
           frame.z_tool_user, frame.pos_mpl, frame.x_tool_mpl,
           frame.y_tool_mpl, frame.z_tool_mpl}
     ELSE {})

\* C1: for every angle theta of [0, 360) (the four waypoints among them) the
\* tool axes plot_tool_frame computes, X-tool, Y-tool and Z-tool, are
\* pairwise orthogonal and each of unit length, before the display scale.
C1_ToolAxesOrthonormal ==
    fcalls >= 1 =>
        LET X == frame.x_tool_user
            Y == frame.y_tool_user
            Z == frame.z_tool_user
        IN  /\ Dot(X, Y) = Rat(0) /\ Dot(X, Z) = Rat(0) /\ Dot(Y, Z) = Rat(0)
            /\ Dot(X, X) = Rat(1) /\ Dot(Y, Y) = Rat(1) /\ Dot(Z, Z) = Rat(1)

\* a frame has been computed at an angle that is no multiple of 90 degrees
C1_Witness == fcalls >= 1 /\ fpc = "advance" /\ ftheta[2] # 0

\* C2: user_to_mpl, (x, y, z) -> (-x, z, y), is an involution: applied twice
\* (either definition, plot_tool_frame's or main's) it returns the vector it
\* was given, and applied to a remapped position it returns the user position.
C2_UserToMplInvolution ==
    /\ \A v \in DrawnVectors :
          /\ user_to_mpl(user_to_mpl(v)) = v
          /\ main_user_to_mpl(main_user_to_mpl(v)) = v
    /\ wi >= 1 => user_to_mpl(frame.pos_mpl) = frame.pos_user

\* all four tool frames and the world frame are drawn
C2_Witness == wi = 4 /\ Len(ax.arrows) = 15 /\ Cardinality(DrawnVectors) > 15

\* C3: the position plot_tool_frame computes in user coordinates is
\* (x_offset, r cos theta, r sin theta): (x_offset, r, 0) at 0 degrees,
\* (x_offset, 0, r) at 90, (x_offset, -r, 0) at 180, (x_offset, 0, -r) at 270;
\* with radius 100 and x_offset -80 that is (-80, 100, 0) at 0 degrees and
\* (-80, 0, 100) at 90 degrees.
C3_WaypointPosition ==
    wi >= 1 =>
        LET d == waypoints[wi]
            x == tool_frames_offset
            r == radius
        IN  /\ d = 0   => frame.pos_user = <<Rat(x), Rat(r), Rat(0)>>
            /\ d = 90  => frame.pos_user = <<Rat(x), Rat(0), Rat(r)>>
            /\ d = 180 => frame.pos_user = <<Rat(x), Rat(-r), Rat(0)>>
            /\ d = 270 => frame.pos_user = <<Rat(x), Rat(0), Rat(-r)>>
            /\ (r = 100 /\ x = -80 /\ d = 0) =>
                    frame.pos_user = <<Rat(-80), Rat(100), Rat(0)>>
            /\ (r = 100 /\ x = -80 /\ d = 90) =>
                    frame.pos_user = <<Rat(-80), Rat(0), Rat(100)>>

\* the frame at 90 degrees with radius 100 and x_offset -80 has been computed
C3_Witness ==
    wi >= 1 /\ waypoints[wi] = 90 /\ radius = 100 /\ tool_frames_offset = -80

\* the statements of inv_det.py in the order they run
MatOrder ==
    <<"inv_H2", "det_H2", "print_H2", "slice_R", "inv_R", "det_R", "print_R",
      "det_R_new", "inv_R_new", "print_R_new", "done">>

\* the script has run statement st (and has not been ended by an error)
HasRun(st) ==
    \E i, j \in DOMAIN MatOrder :
        MatOrder[i] = st /\ MatOrder[j] = mpc /\ i < j

\* C4: H2 * inverse(H2) is the 4x4 identity, for the script's H2 (rotation
\* block diag(1,-1,-1), translation (-5,10,8)) and for every other
\* transform the script is run on.
C4_H2TimesInverseIsIdentity ==
    HasRun("inv_H2") => MatMul(H2, H2_inv) = Identity(4)

\* the script has inverted its own H2
C4_Witness == HasRun("inv_H2") /\ H2 = CodeH2 /\ mpc = "det_H2"

\* C5 as stated: determinant(H2) = determinant(R), and for the script's
\* matrices both are -1.
C5_DeterminantsAreMinusOne ==
    (HasRun("det_R") /\ H2 = CodeH2) =>
        /\ det_H2 = det_R
        /\ det_H2 = Rat(-1)
        /\ det_R = Rat(-1)

\* C5 amended: determinant(H2) = determinant(R) for every transform, and for
\* the script's matrices both are 1.
C5_DeterminantsAgree ==
    HasRun("det_R") =>
        /\ det_H2 = det_R
        /\ H2 = CodeH2 => (det_H2 = Rat(1) /\ det_R = Rat(1))

\* both determinants of the script's H2 have been computed
C5_Witness == HasRun("det_R") /\ H2 = CodeH2 /\ mpc = "print_R"

\* C6: the rotation block R = diag(1,-1,-1) of the script's H2 is its own
\* inverse and has determinant 1; every diagonal block of entries +-1 is its
\* own inverse.
C6_RotationBlockSelfInverse ==
    /\ (HasRun("det_R") /\ R = Slice(CodeH2, 3, 3)) =>
            /\ R = RatMat(<< <<1, 0, 0>>, <<0, -1, 0>>, <<0, 0, -1>> >>)
            /\ R_inv = R
            /\ det_R = Rat(1)
    /\ (HasRun("inv_R") /\ \A i, j \in 1..3 : i # j => R[i][j] = Rat(0)) =>
            R_inv = R

\* the script's rotation block has been inverted and its determinant taken
C6_Witness == HasRun("det_R") /\ R = Slice(CodeH2, 3, 3) /\ H2 = CodeH2

\* C7: R_new * inverse(R_new) is the 3x3 identity (for the script's R_new and
\* every other matrix the script is run on) and the script's R_new has
\* determinant -1.
C7_RnewInverseAndDeterminant ==
    /\ HasRun("inv_R_new") => MatMul(R_new, R_new_inv) = Identity(3)
    /\ (HasRun("det_R_new") /\ R_new = CodeRnew) => det_R_new = Rat(-1)

\* the script's R_new has been inverted
C7_Witness == HasRun("inv_R_new") /\ R_new = CodeRnew

\* C8: one remap, (x, y, z) -> (-x, z, y), for everything drawn: the two
\* user_to_mpl definitions agree, and every sample point of the cylinder mesh
\* and of the circumference path is user_to_mpl of its user coordinates
\* (x, r cos theta, r sin theta).
C8_OneRemap ==
    /\ \A v \in DrawnVectors : user_to_mpl(v) = main_user_to_mpl(v)
    /\ \A srf \in Range(ax.surfaces) :
          LET n == num_points
              theta == linspace_2pi(n)
              x_pipe == linspace(RDiv(Rat(-length), Rat(2)),
                                 RDiv(Rat(length), Rat(2)), n)
          IN  \A i, j \in 1..n :
                <<srf.X[i][j], srf.Y[i][j], srf.Z[i][j]>> =
                    user_to_mpl(<<x_pipe[i], RMul(Rat(radius), np_cos(theta[j])),
                                  RMul(Rat(radius), np_sin(theta[j]))>>)
    /\ \A ln \in Range(ax.lines) :
          LET theta == linspace_2pi(circle_n)
          IN  \A j \in 1..circle_n :
                <<ln.xs[j], ln.ys[j], ln.zs[j]>> =
                    main_user_to_mpl(<<Rat(tool_frames_offset),
                                       RMul(Rat(radius), np_cos(theta[j])),
                                       RMul(Rat(radius), np_sin(theta[j]))>>)

\* the mesh, the frames and the path are drawn
C8_Witness ==
    Len(ax.surfaces) = 1 /\ Len(ax.lines) = 1 /\ wi = 4 /\ num_points = 5

\* what one plot_tool_frame call draws on axes that hold nothing
FrameArtists(theta_deg) ==
    plot_tool_frame(EmptyAxes, theta_deg, radius, scale, tool_frames_offset)

ToolLabels == {"X-tool", "Y-tool", "Z-tool"}

\* C9: main processes exactly the waypoints 0, 90, 180, 270; each
\* plot_tool_frame call adds three arrows and one marker, the same ones the
\* call draws on empty axes (they depend on its arguments only); so the tool
\* frames drawn in the end are the same in every order of the waypoints.
C9_ToolFramesIndependent ==
    LET processed == {waypoints[i] : i \in 1..wi}
        tool_arrows == {a \in Range(ax.arrows) : a.label[1] \in ToolLabels}
    IN  /\ Cardinality(tool_arrows) = 3 * wi
        /\ Len(ax.arrows) = 3 * wi + (IF pc \in {"create_cylinder", "world_axes"}
                                      THEN 0 ELSE 3)
        /\ Len(ax.scatters) = wi
        /\ tool_arrows =
              UNION {Range(FrameArtists(d).arrows) : d \in processed}
        /\ Range(ax.scatters) =
              UNION {Range(FrameArtists(d).scatters) : d \in processed}
        /\ pc \in {"circle", "view", "savefig", "done"} =>
              /\ wi = 4
              /\ processed = {0, 90, 180, 270}
              /\ tool_arrows =
                    UNION {Range(FrameArtists(CodeWaypoints[i]).arrows) : i \in 1..4}
              /\ Range(ax.scatters) =
                    UNION {Range(FrameArtists(CodeWaypoints[i]).scatters) : i \in 1..4}

\* the loop has ended on an order that is not the script's
C9_Witness == pc = "done" /\ wi = 4 /\ waypoints = <<270, 0, 180, 90>>

\* C10: X-tool is the direction of travel: the displacement from the
\* position at theta to the position at theta + 90 degrees has a strictly
\* positive dot product with X-tool(theta), and so has r * X-tool(theta),
\* the derivative of the position with respect to theta.
C10_XToolIsDirectionOfTravel ==
    fcalls >= 2 =>
        /\ RLess(Rat(0), Dot(VSub(frame.pos_user, fprev.pos_user),
                             fprev.x_tool_user))
        /\ RLess(Rat(0), Dot(VScale(fprev.x_tool_user, Rat(radius)),
                             fprev.x_tool_user))
        /\ Dot(VSub(frame.pos_user, fprev.pos_user), fprev.x_tool_user) =
              Rat(radius)

\* the frames at an angle off the axes and a quarter turn further
C10_Witness == fcalls >= 2 /\ fpc = "advance" /\ ftheta[2] # 0

=============================================================================
